---- MODULE Spec2Model ----
(***************************************************************************)
(* Shuttle Connect: the booking store (Supabase table "bookings"), the     *)
(* rider pages (Home, BookingHistory, BookingFlow) and the staff           *)
(* dashboards (DriverDashboard, AdminDashboard) that read and write it.    *)
(***************************************************************************)
EXTENDS Integers, Sequences, FiniteSets, TLC

(***************************************************************************)
(* Bounds of the model.                                                    *)
(***************************************************************************)
MaxBookings == 2      \* rows the bookings table may hold
MaxSeed == 1          \* rows already in the table when the sessions start
MaxDay == 2           \* selectable travel dates: today .. today + MaxDay - 1
MaxSeats == 1         \* maxSeats of every route
MaxNow == 2           \* largest reading of the wall clock
MaxUsers == 2         \* rows the users table may hold
MaxUserSeed == 1      \* rows already in the users table at the start
MaxClock == 3         \* seconds of scanning that are followed

(***************************************************************************)
(* Program constants.                                                      *)
(***************************************************************************)
DupWindow == 60000    \* ms, the duplicate test of confirmBooking
NoCheckIn == 0        \* check_in_time is null: checkInTime is undefined
NoId == 0             \* useState<string | null>(null): no booking id held
Debounce == 3         \* s, setTimeout(() => setLastScanned(null), 3000)

Users == {"u1", "u2"}
Routes == {"m1", "n1"}
Stations == {"st1"}
Days == 0 .. (MaxDay - 1)
None == "none"

\* The confirmBooking invocations that may be in flight at once (the confirm
\* button stays enabled while an invocation awaits the store).
Calls == {"c1", "c2"}

WAITING == "WAITING"
BOOKED == "BOOKED"
COMPLETED == "COMPLETED"
CANCELLED == "CANCELLED"
NOSHOW == "NOSHOW"
BookingStatus == {BOOKED, WAITING, COMPLETED, CANCELLED, NOSHOW}

\* The rider logged in to the browser session.
user == "u1"

\* RouteOption.time as minutes after midnight ("07:30", "19:30").
RouteMinutes(r) == IF r = "m1" THEN 7 * 60 + 30 ELSE 19 * 60 + 30

MsPerDay == 24 * 60 * 60000

Abs(x) == IF x < 0 THEN 0 - x ELSE x

\* travelDate = new Date(date); travelDate.setHours(hours, mins, 0, 0)
TravelTimestamp(day, r) == day * MsPerDay + RouteMinutes(r) * 60000

\* isToday(ts): same local day, month and year as now (today is day 0).
IsToday(ts) == ts \div MsPerDay = 0

VARIABLES
    store,            \* the rows of the bookings table; a row's id is its index
    now,              \* wall clock (new Date())
    page,             \* the rider page that is mounted
    userBookings,     \* Home.activeBookings / BookingHistory.bookings
    bookingToCancel,  \* Home / BookingHistory bookingToCancel
    seatCounts,       \* BookingFlow.seatCounts
    selectedRoute,    \* BookingFlow.selectedRoute
    selectedStation,  \* BookingFlow.selectedStation
    selectedDates,    \* BookingFlow.selectedDates
    pc,               \* pc[c]: position of confirmBooking invocation c
    closure,          \* closure[c]: selectedRoute, selectedStation, selectedDates it captured
    allUserBookings,  \* allUserBookings[c]: const allUserBookings
    pending,          \* pending[c]: the dates its loop has yet to visit
    createdCount,     \* createdCount[c]: let createdCount
    failCount,        \* failCount[c]: let failCount
    dBookings,        \* DriverDashboard.bookings
    selectedRouteId,  \* DriverDashboard.selectedRouteId
    dLastScanned,     \* DriverDashboard.lastScanned
    dSwal,            \* icon of the Swal DriverDashboard.handleScan fired last
    aBookings,        \* AdminDashboard.bookings
    aLastScanned,     \* AdminDashboard.lastScanned
    users,            \* the rows of the users table; a row's id is RowIds[index]
    reg,              \* reg[k]: position and argument of registerUser invocation k
    ret,              \* the data-access call that returned last, and its value
    details,          \* the route_details table: details[r] holds the row of route r, if any
    routes,           \* AdminDashboard: routes, by route id (licensePlate, driverPhone)
    isManageVehicles, \* AdminDashboard: the Manage Vehicles panel is shown
    scanMode,         \* the dashboard's scanMode: QRScanner is mounted
    video,            \* the <video> element of the mounted QRScanner
    effect,           \* the run of QRScanner's useEffect that is current
    fx,               \* fx[e]: position, video and animation frame of effect run e
    srcObject,        \* srcObject[v]: the stream attached to video element v
    live,             \* the streams whose tracks have not been stopped
    sessionUser,      \* AppContent.user, and the stored session ({} for null)
    path,             \* the location the router shows
    login,            \* Login.handleSubmit: position and the values it captured
    loginSwal,        \* icon of the Swal Login.handleSubmit fired last
    formData,         \* Profile.formData
    isEditing,        \* Profile.isEditing
    clock,            \* seconds since the driver dashboard mounted
    timers,           \* the times at which pending setTimeout callbacks of handleScan are due
    processedAt,      \* processedAt[code]: when handleScan last processed the code, if ever
    delivered,        \* the codes QRScanner has passed to onScan since it was mounted
    flowRoutes,       \* the ids of BookingFlow.routes, as texts
    currentDate,      \* AdminDashboard.currentDate, as a day (today is day 0)
    searchTerm        \* AdminDashboard.searchTerm, as a text

riderVars == <<page, userBookings, bookingToCancel>>
flowVars == <<seatCounts, selectedRoute, selectedStation, selectedDates>>
callVars == <<pc, closure, allUserBookings, pending, createdCount, failCount>>
driverVars == <<dBookings, selectedRouteId, dLastScanned, dSwal>>
adminVars == <<aBookings, aLastScanned>>
bookingVars == <<store, now, riderVars, flowVars, callVars, driverVars, adminVars>>
userVars == <<users, reg>>
scanVars == <<scanMode, video, effect, fx, srcObject, live>>
routeVars == <<details, routes, isManageVehicles>>
sessionVars == <<sessionUser, path, login, loginSwal, formData, isEditing>>
timeVars == <<clock, timers, processedAt>>
viewVars == <<flowRoutes, currentDate, searchTerm>>
serviceVars == <<userVars, ret, routeVars, scanVars, sessionVars, timeVars, viewVars, delivered>>
vars == <<bookingVars, serviceVars>>

(***************************************************************************)
(* Data access (the Supabase calls).  A call whose ok is FALSE is one that *)
(* returned an error or threw: storage unreachable.                        *)
(***************************************************************************)
Ids(st) == DOMAIN st

\* A QR payload that is the id of no booking.
UnknownCode == MaxBookings + 1

\* The payloads a camera may decode: a stored booking's id, or something else.
Codes == Ids(store) \cup {UnknownCode}

\* user.name, route.name, station.name
UserName(u) == IF u = "u1" THEN "Ann" ELSE "Bob"
RouteName(r) == IF r = "m1" THEN "Morning 07:30" ELSE "Night 19:30"
StationName(st) == "Gate 1"

\* A column that was never written.
Null == "null"

\* b.user_name || ''
OrEmpty(x) == IF x = Null THEN "" ELSE x

\* undefined: an optional field that is not set, and the value of a void call.
Void == "undefined"

\* Vehicle details: what an admin can type into the two inputs of a route.
Plates == {"P1", "P2"}
Phones == {"T1"}
Fields == {"licensePlate", "driverPhone"}
FieldValues(f) == IF f = "licensePlate" THEN Plates ELSE Phones

\* JavaScript truthiness of an optional string.
Truthy(x) == x \notin {Void, Null, ""}

\* route.licensePlate || null
OrNull(x) == IF Truthy(x) THEN x ELSE Null

\* detail?.license_plate || undefined
OrUndefined(x) == IF Truthy(x) THEN x ELSE Void

\* A route that carries no vehicle details.
NoDetail == [licensePlate |-> Void, driverPhone |-> Void]

\* getRoutes, its vehicle details: detail = details?.find(d => d.route_id === r.id)
GetRoutes(d) ==
    [r \in Routes |->
        IF d[r] = {} THEN NoDetail
        ELSE LET detail == CHOOSE x \in d[r] : TRUE
             IN  [licensePlate |-> OrUndefined(detail.license_plate),
                  driverPhone |-> OrUndefined(detail.driver_phone)]]

\* saveRoutes, one turn of its loop: a route with neither field is skipped;
\* otherwise its row is updated if select(...).single() finds it, else inserted.
SaveRouteDetail(rows, route) ==
    IF Truthy(route.licensePlate) \/ Truthy(route.driverPhone)
    THEN LET row == [license_plate |-> OrNull(route.licensePlate),
                     driver_phone |-> OrNull(route.driverPhone)]
         IN  IF Cardinality(rows) = 1 THEN {row} ELSE rows \cup {row}
    ELSE rows

\* saveRoutes(routes), every request succeeding.
SaveRoutes(d, rs) == [r \in Routes |-> SaveRouteDetail(d[r], rs[r])]

\* A Booking as the row mapping of getBookings / getUserBookings returns it.
RowToBooking(st, i) ==
    [id |-> i, userId |-> st[i].userId, userName |-> OrEmpty(st[i].userName),
     routeId |-> st[i].routeId, routeName |-> OrEmpty(st[i].routeName),
     stationId |-> OrEmpty(st[i].stationId), stationName |-> OrEmpty(st[i].stationName),
     timestamp |-> st[i].timestamp,
     status |-> st[i].status, checkInTime |-> st[i].checkInTime]

GetBookings(st, ok) ==
    IF ok THEN {RowToBooking(st, i) : i \in Ids(st)} ELSE {}

\* Faulty variant: the query lacks .eq('user_id', userId).
GetUserBookingsOfAnyUser(st, u, ok) ==
    IF ok THEN {RowToBooking(st, i) : i \in Ids(st)} ELSE {}

GetUserBookings(st, u, ok) ==
    IF ok THEN {RowToBooking(st, i) : i \in {j \in Ids(st) : st[j].userId = u}}
    ELSE {}

\* insert(...): the table assigns the row its id; check_in_time stays null.
SaveBooking(st, b, ok) ==
    IF ok
    THEN Append(st, [userId |-> b.userId, userName |-> b.userName,
                     routeId |-> b.routeId, routeName |-> b.routeName,
                     stationId |-> b.stationId, stationName |-> b.stationName,
                     timestamp |-> b.timestamp,
                     status |-> b.status, checkInTime |-> NoCheckIn])
    ELSE st

\* Faulty variant: check_in_time is stamped whatever the status.
UpdateBookingStatusAlwaysStamps(st, id, status, t, ok) ==
    IF ok /\ id \in Ids(st)
    THEN [st EXCEPT ![id] = [@ EXCEPT !.status = status, !.checkInTime = t]]
    ELSE st

\* update({status [, check_in_time: now]}).eq('id', id)
UpdateBookingStatus(st, id, status, t, ok) ==
    IF ok /\ id \in Ids(st)
    THEN [st EXCEPT ![id] =
            IF status = COMPLETED
            THEN [@ EXCEPT !.status = status, !.checkInTime = t]
            ELSE [@ EXCEPT !.status = status]]
    ELSE st

\* Faulty variant: the count is scoped to today's bookings.
GetRouteSeatCountToday(st, r, ok) ==
    IF ok
    THEN Cardinality({i \in Ids(st) : /\ st[i].routeId = r
                                      /\ st[i].status \in {BOOKED, WAITING}
                                      /\ IsToday(st[i].timestamp)})
    ELSE 0

\* Faulty variant: the count forgets the status filter.
GetRouteSeatCountAnyStatus(st, r, ok) ==
    IF ok THEN Cardinality({i \in Ids(st) : st[i].routeId = r}) ELSE 0

\* Faulty variant: the count keeps every booking that is not cancelled.
GetRouteSeatCountNotCancelled(st, r, ok) ==
    IF ok
    THEN Cardinality({i \in Ids(st) : st[i].routeId = r /\ st[i].status # CANCELLED})
    ELSE 0

GetRouteSeatCount(st, r, ok) ==
    IF ok
    THEN Cardinality({i \in Ids(st) : st[i].routeId = r /\ st[i].status \in {BOOKED, WAITING}})
    ELSE 0

\* The clock never runs backwards; a call may see it advanced.
Tick == IF now < MaxNow THEN {now, now + 1} ELSE {now}

\* Home.loadBookings: only WAITING and BOOKED bookings are kept.
HomeLoadBookings(st, ok) ==
    {b \in GetUserBookings(st, user, ok) : b.status = WAITING \/ b.status = BOOKED}

\* BookingHistory.loadBookings: every booking of the user.
HistoryLoadBookings(st, ok) == GetUserBookings(st, user, ok)

\* The loadBookings of the mounted page.
LoadBookings(st, ok) ==
    IF page = "home" THEN HomeLoadBookings(st, ok) ELSE HistoryLoadBookings(st, ok)

(***************************************************************************)
(* Initial state: the table holds rows stored earlier (at most MaxSeed),   *)
(* the rider is on Home with the bookings loaded, both dashboards are      *)
(* mounted with their data loaded.                                         *)
(***************************************************************************)
SeedRows ==
    {[userId |-> u, userName |-> UserName(u), routeId |-> r, routeName |-> RouteName(r),
      stationId |-> "st1", stationName |-> StationName("st1"),
      timestamp |-> TravelTimestamp(0, r), status |-> s, checkInTime |-> NoCheckIn] :
        u \in Users, r \in Routes, s \in {WAITING, BOOKED}}

SeedStores == UNION {[1 .. n -> SeedRows] : n \in 0 .. MaxSeed}

NoCounts == [r \in Routes |-> 0]
NoClosure == [route |-> None, station |-> None, dates |-> <<>>]

\* The sessions as they start on a table `store` already holds.
Mounted ==
    /\ now = 1
    /\ page = "home"
    /\ userBookings = HomeLoadBookings(store, TRUE)
    /\ bookingToCancel = NoId
    /\ seatCounts = NoCounts
    /\ selectedRoute = None
    /\ selectedStation = None
    /\ selectedDates = <<>>
    /\ pc = [c \in Calls |-> "idle"]
    /\ closure = [c \in Calls |-> NoClosure]
    /\ allUserBookings = [c \in Calls |-> {}]
    /\ pending = [c \in Calls |-> <<>>]
    /\ createdCount = [c \in Calls |-> 0]
    /\ failCount = [c \in Calls |-> 0]
    /\ dBookings = GetBookings(store, TRUE)
    /\ selectedRouteId = None
    /\ dLastScanned = NoId
    /\ dSwal = None
    /\ aBookings = GetBookings(store, TRUE)
    /\ aLastScanned = NoId

\* registerUser invocations (two browser sessions, or a second submit).
RegCalls == {"r1", "r2"}

NoUser == [employeeId |-> None, name |-> None, department |-> None, phone |-> None,
           role |-> None]
NoRet == [fn |-> None, val |-> {}]

\* QRScanner's effect runs and <video> elements.
Effects == {"e1", "e2"}
Videos == {"v1", "v2"}

NoEffect == [pc |-> "off", video |-> None, frame |-> None, cleaned |-> FALSE]

\* No scanner is mounted and no camera is in use.
ScannerClosed ==
    /\ scanMode = FALSE
    /\ video = None
    /\ effect = None
    /\ fx = [e \in Effects |-> NoEffect]
    /\ srcObject = [v \in Videos |-> None]
    /\ live = {}

\* No scan was delivered yet and no reset timer is pending.
AllCodes == 1 .. (MaxBookings + 1)
TimeIdle ==
    /\ clock = 0
    /\ timers = {}
    /\ processedAt = [c \in AllCodes |-> {}]
    /\ delivered = {}
    /\ flowRoutes = {}
    /\ currentDate = 0
    /\ searchTerm = <<>>

\* Nobody is logged in: the Login page is shown.
NoNewUser ==
    [id |-> None, employeeId |-> None, name |-> None, department |-> None, phone |-> None,
     role |-> None]
NoLogin == [pc |-> "idle", newUser |-> NoNewUser, empId |-> None]
SessionIdle ==
    /\ sessionUser = {}
    /\ path = "/"
    /\ login = NoLogin
    /\ loginSwal = None
    /\ formData = {}
    /\ isEditing = FALSE

\* The route_details table is empty and the admin's routes carry no details.
RoutesIdle ==
    /\ details = [r \in Routes |-> {}]
    /\ routes = [r \in Routes |-> NoDetail]
    /\ isManageVehicles = FALSE

\* No data-access call is under way and the users table is empty.
ServicesIdle ==
    /\ users = <<>>
    /\ reg = [k \in RegCalls |-> [pc |-> "idle", user |-> NoUser]]
    /\ ret = NoRet
    /\ RoutesIdle
    /\ ScannerClosed
    /\ SessionIdle
    /\ TimeIdle

Init ==
    /\ store \in SeedStores
    /\ Mounted
    /\ ServicesIdle

\* Rows of any status and travel date, as earlier sessions may have left them.
AnyRows ==
    {[userId |-> u, userName |-> UserName(u), routeId |-> r, routeName |-> RouteName(r),
      stationId |-> "st1", stationName |-> StationName("st1"),
      timestamp |-> TravelTimestamp(d, r), status |-> s,
      checkInTime |-> IF s = COMPLETED THEN 1 ELSE NoCheckIn] :
        u \in Users, r \in Routes, d \in Days, s \in BookingStatus}

AnyStores == UNION {[1 .. n -> AnyRows] : n \in 0 .. MaxBookings}

InitAnyStore ==
    /\ store \in AnyStores
    /\ Mounted
    /\ ServicesIdle

(***************************************************************************)
(* Rider: Home and BookingHistory.                                         *)
(***************************************************************************)
\* No confirmBooking invocation is in flight.
Idle == \A c \in Calls : pc[c] = "idle"

\* BookingFlow is unmounted: its component state is gone.
FlowUnmount ==
    /\ seatCounts' = NoCounts
    /\ selectedRoute' = None
    /\ selectedStation' = None
    /\ selectedDates' = <<>>

\* navigate('/'): Home mounts and loads the active bookings.
OpenHome(ok) ==
    /\ Idle
    /\ page # "home"
    /\ page' = "home"
    /\ userBookings' = HomeLoadBookings(store, ok)
    /\ bookingToCancel' = NoId
    /\ FlowUnmount
    /\ UNCHANGED <<serviceVars, store, now, callVars, driverVars, adminVars>>

\* navigate('/history'): BookingHistory mounts and loads every booking.
OpenHistory(ok) ==
    /\ Idle
    /\ page # "history"
    /\ page' = "history"
    /\ userBookings' = HistoryLoadBookings(store, ok)
    /\ bookingToCancel' = NoId
    /\ FlowUnmount
    /\ UNCHANGED <<serviceVars, store, now, callVars, driverVars, adminVars>>

\* Home.todayBookings
TodayBookings == {b \in userBookings : IsToday(b.timestamp)}

\* The bookings whose card shows a cancel button on the mounted page.
Cancellable ==
    IF page = "home" THEN TodayBookings
    ELSE IF page = "history"
         THEN {b \in userBookings : b.status = WAITING \/ b.status = BOOKED}
         ELSE {}

\* The cancel button: setBookingToCancel(booking.id)
SetBookingToCancel(id) ==
    /\ Idle
    /\ bookingToCancel = NoId
    /\ \E b \in Cancellable : b.id = id
    /\ bookingToCancel' = id
    /\ UNCHANGED <<serviceVars, store, now, page, userBookings, flowVars, callVars, driverVars, adminVars>>

\* ConfirmationModal onClose
CloseCancelModal ==
    /\ bookingToCancel # NoId
    /\ bookingToCancel' = NoId
    /\ UNCHANGED <<serviceVars, store, now, page, userBookings, flowVars, callVars, driverVars, adminVars>>

\* Home.onConfirmCancel / BookingHistory.onConfirmCancel
OnConfirmCancel(okU, okL) ==
    /\ bookingToCancel # NoId
    /\ store' = UpdateBookingStatus(store, bookingToCancel, CANCELLED, now, okU)
    /\ userBookings' = LoadBookings(store', okL)
    /\ bookingToCancel' = NoId
    /\ UNCHANGED <<serviceVars, now, page, flowVars, callVars, driverVars, adminVars>>

(***************************************************************************)
(* DriverDashboard.                                                        *)
(***************************************************************************)
\* The dashboard mounts: useEffect(() => loadData(), []) on fresh state.
DriverMount(ok) ==
    /\ dBookings' = GetBookings(store, ok)
    /\ selectedRouteId' = None
    /\ dLastScanned' = NoId
    /\ UNCHANGED <<serviceVars, store, now, riderVars, flowVars, callVars, dSwal, adminVars>>

\* A route card, or the "Change" button (None).
SetSelectedRouteId(r) ==
    /\ selectedRouteId # r
    /\ r # None => selectedRouteId = None
    /\ selectedRouteId' = r
    /\ UNCHANGED <<serviceVars, store, now, riderVars, flowVars, callVars, dBookings, dLastScanned,
                   dSwal, adminVars>>

CurrentBookings ==
    IF selectedRouteId = None THEN {}
    ELSE {b \in dBookings : b.routeId = selectedRouteId /\ IsToday(b.timestamp)
                            /\ b.status # CANCELLED}

\* Faulty variant: "No Show" puts the booking back to WAITING.
HandleActionNoShowReopens(bookingId, status, okU, okL) ==
    /\ now' \in Tick
    /\ store' = UpdateBookingStatus(store, bookingId,
                                    IF status = NOSHOW THEN WAITING ELSE status, now', okU)
    /\ dBookings' = GetBookings(store', okL)

\* handleAction: updateBookingStatus, then loadData.
HandleAction(bookingId, status, okU, okL) ==
    /\ now' \in Tick
    /\ store' = UpdateBookingStatus(store, bookingId, status, now', okU)
    /\ dBookings' = GetBookings(store', okL)

\* The roster buttons, shown for a booking that is WAITING in the roster.
RosterButton(id, status, okU, okL) ==
    /\ status \in {NOSHOW, COMPLETED}
    /\ \E b \in CurrentBookings : b.id = id /\ b.status = WAITING
    /\ HandleAction(id, status, okU, okL)
    /\ UNCHANGED <<serviceVars, riderVars, flowVars, callVars, selectedRouteId, dLastScanned, dSwal,
                   adminVars>>

\* Faulty variant: the scan looks the id up in every loaded booking, not in the roster.
DriverScanTargetAnyRoute(data) ==
    {b \in dBookings : b.id = data /\ b.status = WAITING}

\* DriverDashboard.handleScan: the booking the scan checks in, if any.
DriverScanTarget(data) ==
    {b \in CurrentBookings : b.id = data /\ b.status = WAITING}

\* handleScan past `if (data === lastScanned) return`.
DriverScanProcess(data, okU, okL) ==
    /\ dLastScanned' = data
    /\ IF DriverScanTarget(data) # {}
       THEN /\ HandleAction(data, COMPLETED, okU, okL)
            /\ dSwal' = "success"
       ELSE /\ UNCHANGED <<store, now, dBookings>>
            /\ dSwal' = IF \E b \in CurrentBookings : b.id = data THEN "info" ELSE "error"
    /\ UNCHANGED <<riderVars, flowVars, callVars, selectedRouteId, adminVars>>

DriverHandleScan(data, okU, okL) ==
    /\ selectedRouteId # None
    /\ data # dLastScanned
    /\ DriverScanProcess(data, okU, okL)
    /\ UNCHANGED serviceVars

\* setTimeout(() => setLastScanned(null), 3000)
DriverScanTimeout ==
    /\ dLastScanned # NoId
    /\ dLastScanned' = NoId
    /\ UNCHANGED <<serviceVars, store, now, riderVars, flowVars, callVars, dBookings, selectedRouteId,
                   dSwal, adminVars>>

(***************************************************************************)
(* AdminDashboard.                                                         *)
(***************************************************************************)
AdminMount(ok) ==
    /\ aBookings' = GetBookings(store, ok)
    /\ aLastScanned' = NoId
    /\ UNCHANGED <<serviceVars, store, now, riderVars, flowVars, callVars, driverVars>>

\* AdminDashboard.handleScan: the booking the scan checks in, if any.
AdminScanTarget(data) ==
    {b \in aBookings : b.id = data /\ (b.status = WAITING \/ b.status = BOOKED)}

AdminHandleScan(data, okU, okL) ==
    /\ data # aLastScanned
    /\ aLastScanned' = data
    /\ IF AdminScanTarget(data) # {}
       THEN /\ now' \in Tick
            /\ store' = UpdateBookingStatus(store, data, COMPLETED, now', okU)
            /\ aBookings' = GetBookings(store', okL)
       ELSE UNCHANGED <<store, now, aBookings>>
    /\ UNCHANGED <<serviceVars, riderVars, flowVars, callVars, driverVars>>

AdminScanTimeout ==
    /\ aLastScanned # NoId
    /\ aLastScanned' = NoId
    /\ UNCHANGED <<serviceVars, store, now, riderVars, flowVars, callVars, driverVars, aBookings>>

(***************************************************************************)
(* BookingFlow.                                                            *)
(***************************************************************************)
\* navigate('/booking'): BookingFlow mounts; loadData reads each route's seat
\* count (okRoutes: the routes whose count query succeeded).
OpenBookingFlow(okRoutes) ==
    /\ Idle
    /\ page # "flow"
    /\ page' = "flow"
    /\ userBookings' = {}
    /\ bookingToCancel' = NoId
    /\ seatCounts' = [r \in Routes |-> GetRouteSeatCount(store, r, r \in okRoutes)]
    /\ selectedRoute' = None
    /\ selectedStation' = None
    /\ selectedDates' = <<>>
    /\ UNCHANGED <<serviceVars, store, now, callVars, driverVars, adminVars>>

\* Faulty variant: a route counts as full only above maxSeats.
IsFullAboveOnly(r) == seatCounts[r] > MaxSeats

\* RouteSection: isFull = seatsTaken >= route.maxSeats
IsFull(r) == seatCounts[r] >= MaxSeats

\* RouteSection onClick: !isFull && onRouteClick(route, direction)
HandleRouteSelect(r) ==
    /\ Idle
    /\ page = "flow"
    /\ selectedRoute = None
    /\ ~IsFull(r)
    /\ selectedRoute' = r
    /\ UNCHANGED <<serviceVars, store, now, riderVars, seatCounts, selectedStation, selectedDates,
                   callVars, driverVars, adminVars>>

HandleStationSelect(st) ==
    /\ Idle
    /\ page = "flow"
    /\ selectedRoute # None
    /\ selectedStation = None
    /\ selectedStation' = st
    /\ UNCHANGED <<serviceVars, store, now, riderVars, seatCounts, selectedRoute, selectedDates,
                   callVars, driverVars, adminVars>>

Remove(seq, d) == SelectSeq(seq, LAMBDA x : x # d)
Elems(seq) == {seq[i] : i \in DOMAIN seq}

ToggleDate(d) ==
    /\ Idle
    /\ page = "flow"
    /\ selectedStation # None
    /\ selectedDates' = IF d \in Elems(selectedDates) THEN Remove(selectedDates, d)
                        ELSE Append(selectedDates, d)
    /\ UNCHANGED <<serviceVars, store, now, riderVars, seatCounts, selectedRoute, selectedStation,
                   callVars, driverVars, adminVars>>

\* Faulty variant: the status test is inverted.
IsDupCancelledOnly(bookings, travel) ==
    \E b \in bookings : Abs(b.timestamp - travel) < DupWindow /\ b.status = CANCELLED

\* Faulty variant: the status test is missing.
IsDupAnyStatus(bookings, travel) ==
    \E b \in bookings : Abs(b.timestamp - travel) < DupWindow

\* Faulty variant: only WAITING and BOOKED bookings count.
IsDupActiveOnly(bookings, travel) ==
    \E b \in bookings : Abs(b.timestamp - travel) < DupWindow /\ b.status \in {WAITING, BOOKED}

\* Smart Duplicate Check
IsDup(bookings, travel) ==
    \E b \in bookings : Abs(b.timestamp - travel) < DupWindow /\ b.status # CANCELLED

\* Math.random().toString(36).substr(2, 9).toUpperCase(): the ids the client
\* may generate; nothing keeps them apart from the ids the table assigns.
ClientIds == 1 .. (MaxBookings + 1)

\* Faulty variant: the route's departure time is not set on the date.
NewBookingAtMidnight(c, travel, id) ==
    [id |-> id, userId |-> user, userName |-> UserName(user),
     routeId |-> closure[c].route, routeName |-> RouteName(closure[c].route),
     stationId |-> closure[c].station, stationName |-> StationName(closure[c].station),
     timestamp |-> travel - RouteMinutes(closure[c].route) * 60000, status |-> WAITING]

\* const newBooking: Booking = {...}
NewBooking(c, travel, id) ==
    [id |-> id, userId |-> user, userName |-> UserName(user),
     routeId |-> closure[c].route, routeName |-> RouteName(closure[c].route),
     stationId |-> closure[c].station, stationName |-> StationName(closure[c].station),
     timestamp |-> travel, status |-> WAITING]

\* The invocation a click on the confirm button starts.
FreeCall == IF pc["c1"] = "idle" THEN "c1" ELSE "c2"

\* confirmBooking up to the loop: the guard and the getUserBookings read.
ConfirmBooking(c, ok) ==
    /\ page = "flow"
    /\ c = FreeCall
    /\ pc[c] = "idle"
    /\ ~(selectedRoute = None \/ selectedStation = None \/ Len(selectedDates) = 0)
    /\ pc' = [pc EXCEPT ![c] = "loop"]
    /\ closure' = [closure EXCEPT ![c] = [route |-> selectedRoute, station |-> selectedStation,
                                          dates |-> selectedDates]]
    /\ createdCount' = [createdCount EXCEPT ![c] = 0]
    /\ failCount' = [failCount EXCEPT ![c] = 0]
    /\ allUserBookings' = [allUserBookings EXCEPT ![c] = GetUserBookings(store, user, ok)]
    /\ pending' = [pending EXCEPT ![c] = selectedDates]
    /\ UNCHANGED <<serviceVars, store, now, riderVars, flowVars, driverVars, adminVars>>

\* One turn of  for (const date of selectedDates) { ... }
ConfirmDate(c, ok) ==
    /\ pc[c] = "loop"
    /\ pending[c] # <<>>
    /\ LET travel == TravelTimestamp(Head(pending[c]), closure[c].route)
       IN IF ~IsDup(allUserBookings[c], travel)
          THEN /\ ok => Len(store) < MaxBookings
               /\ \E id \in ClientIds : store' = SaveBooking(store, NewBooking(c, travel, id), ok)
               /\ createdCount' = [createdCount EXCEPT ![c] = @ + 1]
               /\ UNCHANGED failCount
          ELSE /\ failCount' = [failCount EXCEPT ![c] = @ + 1]
               /\ UNCHANGED <<store, createdCount>>
    /\ pending' = [pending EXCEPT ![c] = Tail(@)]
    /\ UNCHANGED <<serviceVars, now, riderVars, flowVars, pc, closure, allUserBookings, driverVars,
                   adminVars>>

\* The loop is over: Swal.fire reports createdCount and failCount.
ConfirmReport(c) ==
    /\ pc[c] = "loop"
    /\ pending[c] = <<>>
    /\ pc' = [pc EXCEPT ![c] = "report"]
    /\ UNCHANGED <<serviceVars, store, now, riderVars, flowVars, closure, allUserBookings, pending,
                   createdCount, failCount, driverVars, adminVars>>

\* .then(() => { if (createdCount > 0) navigate('/') }): Home mounts.
ReportClosed(c, ok) ==
    /\ pc[c] = "report"
    /\ pc' = [pc EXCEPT ![c] = "idle"]
    /\ closure' = [closure EXCEPT ![c] = NoClosure]
    /\ allUserBookings' = [allUserBookings EXCEPT ![c] = {}]
    /\ createdCount' = [createdCount EXCEPT ![c] = 0]
    /\ failCount' = [failCount EXCEPT ![c] = 0]
    /\ IF createdCount[c] > 0 /\ page # "home"
       THEN /\ page' = "home"
            /\ userBookings' = HomeLoadBookings(store, ok)
            /\ FlowUnmount
       ELSE UNCHANGED <<page, userBookings, flowVars>>
    /\ UNCHANGED <<serviceVars, store, now, bookingToCancel, pending, driverVars, adminVars>>

(***************************************************************************)
(* Users: registerUser and loginAuth on the users table.                   *)
(***************************************************************************)
EmpCodes == {"9999", "8888", "1001"}
Names == {"Ann", "Bob"}
Depts == {"HR"}
UserPhones == {"080"}

\* UserRole
USER == "user"
ADMIN == "admin"
DRIVER == "driver"

\* role.toUpperCase(), role.toLowerCase()
ToUpperCase(x) ==
    CASE x = "user" -> "USER" [] x = "admin" -> "ADMIN" [] x = "driver" -> "DRIVER"
      [] OTHER -> x
ToLowerCase(x) ==
    CASE x = "USER" -> "user" [] x = "ADMIN" -> "admin" [] x = "DRIVER" -> "driver"
      [] OTHER -> x

\* The ids the users table assigns to its rows.
RowIds == [i \in 1 .. (MaxUsers + 1) |-> IF i = 1 THEN "uid1" ELSE IF i = 2 THEN "uid2" ELSE
                                         IF i = 3 THEN "uid3" ELSE "uid4"]

\* const newUser: User = {...} of handleSubmit
NewUsers ==
    {[employeeId |-> e, name |-> n, department |-> d, phone |-> p, role |-> USER] :
        e \in EmpCodes, n \in Names, d \in Depts, p \in UserPhones}

\* Rows stored earlier: by registerUser, or without a role.
UserSeedRows ==
    {[employeeId |-> e, name |-> n, department |-> d, phone |-> p, role |-> r] :
        e \in EmpCodes, n \in Names, d \in Depts, p \in UserPhones,
        r \in {ToUpperCase(USER), Null}}

UserSeeds == UNION {[1 .. n -> UserSeedRows] : n \in 0 .. MaxUserSeed}

\* .eq('employee_id', empId): the rows of the employee code.
RowsOf(us, empId) == {i \in DOMAIN us : us[i].employeeId = empId}

\* .single(): data is the row when the query succeeds and matches exactly one
\* row, and null otherwise (outcome o: "ok", "error" or "throw").
Single(us, empId, o) ==
    IF o = "ok" /\ Cardinality(RowsOf(us, empId)) = 1 THEN RowsOf(us, empId) ELSE {}

Outcomes == {"ok", "error", "throw"}

\* handleSubmit, registration flow: registerUser(newUser) is called.
RegisterUser(k, u) ==
    /\ reg[k].pc = "idle"
    /\ reg' = [reg EXCEPT ![k] = [pc |-> "select", user |-> u]]
    /\ UNCHANGED <<bookingVars, sessionVars, timeVars, viewVars, delivered, users, ret, routeVars, scanVars>>

\* registerUser: the existence check; `if (existing) return false`.
RegSelect(k, o) ==
    /\ reg[k].pc = "select"
    /\ IF o = "throw" \/ Single(users, reg[k].user.employeeId, o) # {}
       THEN /\ reg' = [reg EXCEPT ![k] = [pc |-> "idle", user |-> NoUser]]
            /\ ret' = [fn |-> "registerUser", val |-> FALSE]
       ELSE /\ reg' = [reg EXCEPT ![k].pc = "insert"]
            /\ UNCHANGED ret
    /\ UNCHANGED <<bookingVars, sessionVars, timeVars, viewVars, delivered, users, routeVars, scanVars>>

\* The row registerUser inserts.
UserRow(u) ==
    [employeeId |-> u.employeeId, name |-> u.name, department |-> u.department,
     phone |-> u.phone, role |-> ToUpperCase(u.role)]

\* Faulty variant: a failed insert still reports success.
InsertReturnsAlways(o) == TRUE

\* return !error; catch { return false }
InsertReturns(o) == o = "ok"

\* registerUser: the insert and the return.
RegInsert(k, o) ==
    /\ reg[k].pc = "insert"
    /\ o = "ok" => Len(users) < MaxUsers
    /\ users' = IF o = "ok" THEN Append(users, UserRow(reg[k].user)) ELSE users
    /\ ret' = [fn |-> "registerUser", val |-> InsertReturns(o)]
    /\ reg' = [reg EXCEPT ![k] = [pc |-> "idle", user |-> NoUser]]
    /\ UNCHANGED <<bookingVars, sessionVars, timeVars, viewVars, delivered, routeVars, scanVars>>

\* loginAuth: the fixed identities.
AdminIdentity ==
    [id |-> "9999", employeeId |-> "9999", name |-> "Admin System", department |-> "IT",
     phone |-> "0000", role |-> ADMIN]
DriverIdentity ==
    [id |-> "8888", employeeId |-> "8888", name |-> "Driver Staff",
     department |-> "Transport", phone |-> "081-234-5678", role |-> DRIVER]

\* loginAuth: the User built from a row; role: data.role?.toLowerCase() || USER.
RowToUser(us, i) ==
    [id |-> RowIds[i], employeeId |-> us[i].employeeId, name |-> us[i].name,
     department |-> us[i].department, phone |-> us[i].phone,
     role |-> IF us[i].role = Null THEN USER ELSE ToLowerCase(us[i].role)]

\* Faulty variant: the reserved codes are looked up like any other.
LoginAuthLookupOnly(us, empId, o) ==
    {RowToUser(us, i) : i \in Single(us, empId, o)}

\* loginAuth(empId): the User returned ({} for null).
LoginAuthResult(us, empId, o) ==
    IF empId = "9999" THEN {AdminIdentity}
    ELSE IF empId = "8888" THEN {DriverIdentity}
    ELSE {RowToUser(us, i) : i \in Single(us, empId, o)}

\* handleSubmit, login flow: loginAuth(empId).
LoginAuth(empId, o) ==
    /\ ret' = [fn |-> "loginAuth", val |-> LoginAuthResult(users, empId, o)]
    /\ UNCHANGED <<bookingVars, sessionVars, timeVars, viewVars, delivered, userVars, routeVars, scanVars>>

(***************************************************************************)
(* AppContent, Login and Profile: the session user and what is rendered.   *)
(* saveUser/logoutUser and setUser are always called together, so the      *)
(* stored session and AppContent.user are one variable.                    *)
(***************************************************************************)
Paths == {"/", "/history", "/profile", "/admin", "/driver"}

\* The role of the session user u (a singleton).
RoleOf(u) == (CHOOSE x \in u : TRUE).role

\* Faulty variant: /admin is not guarded.
NavigateToUnguarded(role, p) ==
    CASE p = "/" /\ role = DRIVER -> "/driver"
      [] p = "/driver" /\ role # DRIVER -> "/"
      [] OTHER -> None

\* <Routes>: the <Navigate to=...> a route renders for this role, if any.
NavigateTo(role, p) ==
    CASE p = "/" /\ role = DRIVER -> "/driver"
      [] p = "/admin" /\ role # ADMIN -> "/"
      [] p = "/driver" /\ role # DRIVER -> "/"
      [] OTHER -> None

\* The location after the redirects of <Navigate> have been followed.
RECURSIVE Settle(_, _)
Settle(role, p) ==
    IF NavigateTo(role, p) = None THEN p ELSE Settle(role, NavigateTo(role, p))

\* <Routes>: the element shown at a location that renders no <Navigate>.
Element(p) ==
    CASE p = "/" -> "Home"
      [] p = "/history" -> "BookingHistory"
      [] p = "/profile" -> "Profile"
      [] p = "/admin" -> "AdminDashboard"
      [] p = "/driver" -> "DriverDashboard"

\* AppContent: if (!user) return <Login/>; else the routes.
Rendered == IF sessionUser = {} THEN "Login" ELSE Element(path)

\* What the Login form holds when it is submitted.
Forms ==
    [isRegister : BOOLEAN, empId : {""} \cup EmpCodes, name : {""} \cup Names,
     dept : {""} \cup Depts, phone : {""} \cup UserPhones]

\* Faulty variant: only the name is required.
MissingNameOnly(f) == f.name = ""

\* if (!name || !dept || !phone)
MissingField(f) == f.name = "" \/ f.dept = "" \/ f.phone = ""

\* const newUser: User = { id: empId, employeeId: empId, name, department: dept, phone, role }
NewUser(f) ==
    [id |-> f.empId, employeeId |-> f.empId, name |-> f.name, department |-> f.dept,
     phone |-> f.phone, role |-> USER]

\* The argument of registerUser as the users table sees it.
Registrant(u) ==
    [employeeId |-> u.employeeId, name |-> u.name, department |-> u.department,
     phone |-> u.phone, role |-> u.role]

\* Profile mounts with formData = user when the location becomes /profile,
\* and is unmounted when the location or the session leaves it.
ProfileForm(u, from, to, fd) ==
    IF u = {} \/ to # "/profile" THEN {}
    ELSE IF from = "/profile" /\ fd # {} THEN fd
    ELSE u

\* onLogin(u): saveUser(u); setUser(u).  The routes are rendered for u.
OnLogin(u) ==
    /\ sessionUser' = u
    /\ path' = Settle(RoleOf(u), path)
    /\ formData' = ProfileForm(u, None, path', {})
    /\ isEditing' = FALSE

\* Login.handleSubmit up to its first await.
HandleSubmit(f) ==
    /\ sessionUser = {}
    /\ login.pc = "idle"
    /\ IF f.empId = ""
       THEN /\ loginSwal' = "error"
            /\ UNCHANGED <<login, reg>>
       ELSE IF f.isRegister
       THEN IF MissingField(f)
            THEN /\ loginSwal' = "warning"
                 /\ UNCHANGED <<login, reg>>
            ELSE /\ reg["r1"].pc = "idle"
                 /\ reg' = [reg EXCEPT !["r1"] = [pc |-> "select", user |-> Registrant(NewUser(f))]]
                 /\ login' = [pc |-> "register", newUser |-> NewUser(f), empId |-> None]
                 /\ loginSwal' = None
       ELSE /\ login' = [pc |-> "login", newUser |-> NoNewUser, empId |-> f.empId]
            /\ loginSwal' = None
            /\ UNCHANGED reg
    /\ UNCHANGED <<bookingVars, timeVars, viewVars, delivered, users, ret, routeVars, scanVars, sessionUser, path, formData,
                   isEditing>>

\* handleSubmit, registration flow, after `await registerUser(newUser)`.
SubmitRegistered ==
    /\ login.pc = "register"
    /\ reg["r1"].pc = "idle"
    /\ IF ret.val = TRUE
       THEN /\ loginSwal' = "success"
            /\ OnLogin({login.newUser})
       ELSE /\ loginSwal' = "error"
            /\ UNCHANGED <<sessionUser, path, formData, isEditing>>
    /\ login' = NoLogin
    /\ UNCHANGED <<bookingVars, timeVars, viewVars, delivered, userVars, ret, routeVars, scanVars>>

\* handleSubmit, login flow: `await loginAuth(empId)` and what follows.
SubmitLogin(o) ==
    /\ login.pc = "login"
    /\ ret' = [fn |-> "loginAuth", val |-> LoginAuthResult(users, login.empId, o)]
    /\ IF ret'.val # {}
       THEN /\ loginSwal' = "success"
            /\ OnLogin(ret'.val)
       ELSE /\ loginSwal' = "error"
            /\ UNCHANGED <<sessionUser, path, formData, isEditing>>
    /\ login' = NoLogin
    /\ UNCHANGED <<bookingVars, timeVars, viewVars, delivered, userVars, routeVars, scanVars>>

\* A link of the bottom navigation, or the address bar: the location changes.
GoTo(p) ==
    /\ sessionUser # {}
    /\ path' = Settle(RoleOf(sessionUser), p)
    /\ formData' = ProfileForm(sessionUser, path, path', formData)
    /\ isEditing' = (isEditing /\ path = "/profile" /\ path' = "/profile")
    /\ UNCHANGED <<bookingVars, timeVars, viewVars, delivered, userVars, ret, routeVars, scanVars, sessionUser, login,
                   loginSwal>>

\* Profile: the Edit Profile and Cancel buttons.
SetIsEditing(b) ==
    /\ Rendered = "Profile"
    /\ isEditing = ~b
    /\ isEditing' = b
    /\ UNCHANGED <<bookingVars, timeVars, viewVars, delivered, userVars, ret, routeVars, scanVars, sessionUser, path,
                   login, loginSwal, formData>>

\* Profile: the inputs, setFormData({...formData, [field]: value}).
ProfileFields == {"name", "phone", "department"}
ProfileValues(field) ==
    IF field = "name" THEN Names ELSE IF field = "phone" THEN UserPhones ELSE Depts

SetFormData(field, value) ==
    /\ Rendered = "Profile"
    /\ isEditing
    /\ formData' = {[x EXCEPT ![field] = value] : x \in formData}
    /\ UNCHANGED <<bookingVars, timeVars, viewVars, delivered, userVars, ret, routeVars, scanVars, sessionUser, path,
                   login, loginSwal, isEditing>>

\* Profile.handleSave: saveUser(formData); setUser(formData); setIsEditing(false)
HandleSave ==
    /\ Rendered = "Profile"
    /\ isEditing
    /\ sessionUser' = formData
    /\ isEditing' = FALSE
    /\ UNCHANGED <<bookingVars, timeVars, viewVars, delivered, userVars, ret, routeVars, scanVars, path, login, loginSwal,
                   formData>>

\* Profile: the logout button, logoutUser(); setUser(null).
Logout ==
    /\ Rendered = "Profile"
    /\ sessionUser' = {}
    /\ formData' = {}
    /\ isEditing' = FALSE
    /\ UNCHANGED <<bookingVars, timeVars, viewVars, delivered, userVars, ret, routeVars, scanVars, path, login, loginSwal>>

(***************************************************************************)
(* The data-access functions called directly (ok: the request succeeded).  *)
(***************************************************************************)
\* The bookings a caller may pass to saveBooking.
BookingArgs ==
    {[id |-> i, userId |-> u, userName |-> UserName(u), routeId |-> r,
      routeName |-> RouteName(r), stationId |-> "st1", stationName |-> StationName("st1"),
      timestamp |-> TravelTimestamp(d, r), status |-> WAITING] :
        i \in ClientIds, u \in Users, r \in Routes, d \in Days}

CallGetBookings(ok) ==
    /\ ret' = [fn |-> "getBookings", val |-> GetBookings(store, ok)]
    /\ UNCHANGED <<bookingVars, sessionVars, timeVars, viewVars, delivered, userVars, routeVars, scanVars>>

CallGetUserBookings(u, ok) ==
    /\ ret' = [fn |-> "getUserBookings", val |-> GetUserBookings(store, u, ok)]
    /\ UNCHANGED <<bookingVars, sessionVars, timeVars, viewVars, delivered, userVars, routeVars, scanVars>>

\* saveBooking: return !error; catch { return false }
SaveBookingReturns(ok) == ok

CallSaveBooking(b, ok) ==
    /\ ok => Len(store) < MaxBookings
    /\ store' = SaveBooking(store, b, ok)
    /\ ret' = [fn |-> "saveBooking", val |-> SaveBookingReturns(ok)]
    /\ UNCHANGED <<now, riderVars, flowVars, callVars, driverVars, adminVars, sessionVars, timeVars, viewVars, delivered, userVars,
                   routeVars, scanVars>>

CallUpdateBookingStatus(id, status, ok) ==
    /\ now' \in Tick
    /\ store' = UpdateBookingStatus(store, id, status, now', ok)
    /\ ret' = [fn |-> "updateBookingStatus", val |-> Void]
    /\ UNCHANGED <<riderVars, flowVars, callVars, driverVars, adminVars, sessionVars, timeVars, viewVars, delivered, userVars,
                   routeVars, scanVars>>

(***************************************************************************)
(* QRScanner: useEffect(() => { ...startCamera(); return cleanup }, [onScan]) *)
(* The stream an effect run acquires is named after the run.  fx[e].frame  *)
(* is the pending animation frame of run e: "first" is the one startCamera *)
(* requested, whose id is kept nowhere; "tracked" is one tick requested,   *)
(* whose id is in animationFrameId.                                        *)
(***************************************************************************)
\* Run e has ended and holds nothing: its name can be given to a new run.
Inert(e) ==
    \/ fx[e].pc = "off"
    \/ /\ fx[e].cleaned
       /\ e \notin live
       /\ fx[e].pc = "error" \/ (fx[e].pc = "loop" /\ fx[e].frame = None)

\* A <video> element no run refers to any more.
FreeVideo(v) == \A e \in Effects : fx[e].video = v => Inert(e)

\* The effect body up to the first await: startCamera() calls getUserMedia.
Started(v) == [pc |-> "gum", video |-> v, frame |-> None, cleaned |-> FALSE]

\* cleanup: if (video.srcObject) getTracks().forEach(track => track.stop())
CleanupLive(e) ==
    IF srcObject[fx[e].video] # None THEN live \ {srcObject[fx[e].video]} ELSE live

\* cleanup: cancelAnimationFrame(animationFrameId)
CleanedUp(e) ==
    [fx[e] EXCEPT !.cleaned = TRUE,
                  !.frame = IF fx[e].frame = "tracked" THEN None ELSE fx[e].frame]

\* setScanMode(true): QRScanner mounts with a new <video>; the effect runs.
OpenScanner(e, v) ==
    /\ ~scanMode
    /\ Inert(e) /\ FreeVideo(v)
    /\ scanMode' = TRUE
    /\ video' = v
    /\ effect' = e
    /\ srcObject' = [srcObject EXCEPT ![v] = None]
    /\ fx' = [fx EXCEPT ![e] = Started(v)]
    /\ delivered' = {}
    /\ UNCHANGED <<bookingVars, sessionVars, timeVars, userVars, ret, routeVars, live, viewVars>>

\* The dashboard renders again: onScan is a new function, so the cleanup of
\* the current run is called and the effect runs again on the same <video>.
Rerender(e2) ==
    /\ scanMode
    /\ e2 # effect /\ Inert(e2)
    /\ live' = CleanupLive(effect)
    /\ fx' = [fx EXCEPT ![effect] = CleanedUp(effect), ![e2] = Started(video)]
    /\ effect' = e2
    /\ UNCHANGED <<bookingVars, sessionVars, timeVars, viewVars, delivered, userVars, ret, routeVars, scanMode, video, srcObject>>

\* setScanMode(false), or the dashboard unmounts: the cleanup is called.
CloseScanner ==
    /\ scanMode
    /\ live' = CleanupLive(effect)
    /\ fx' = [fx EXCEPT ![effect] = CleanedUp(effect)]
    /\ scanMode' = FALSE
    /\ video' = None
    /\ effect' = None
    /\ UNCHANGED <<bookingVars, sessionVars, timeVars, viewVars, delivered, userVars, ret, routeVars, srcObject>>

\* getUserMedia resolves: video.srcObject = stream; video.play() is called.
GumResolve(e) ==
    /\ fx[e].pc \in {"gum", "gumFallback"}
    /\ live' = live \cup {e}
    /\ srcObject' = [srcObject EXCEPT ![fx[e].video] = e]
    /\ fx' = [fx EXCEPT ![e].pc = "play"]
    /\ UNCHANGED <<bookingVars, sessionVars, timeVars, viewVars, delivered, userVars, ret, routeVars, scanMode, video, effect>>

\* getUserMedia rejects: the fallback request, then setError.
GumReject(e) ==
    /\ fx[e].pc \in {"gum", "gumFallback"}
    /\ fx' = [fx EXCEPT ![e].pc = IF fx[e].pc = "gum" THEN "gumFallback" ELSE "error"]
    /\ UNCHANGED <<bookingVars, sessionVars, timeVars, viewVars, delivered, userVars, ret, routeVars, scanMode, video, effect, srcObject,
                   live>>

\* video.play() resolves: requestAnimationFrame(tick).
PlayResolve(e) ==
    /\ fx[e].pc = "play"
    /\ fx' = [fx EXCEPT ![e].pc = "loop", ![e].frame = "first"]
    /\ UNCHANGED <<bookingVars, sessionVars, timeVars, viewVars, delivered, userVars, ret, routeVars, scanMode, video, effect, srcObject,
                   live>>

\* video.play() rejects: catch (err) { setError(...) }.
PlayReject(e) ==
    /\ fx[e].pc = "play"
    /\ fx' = [fx EXCEPT ![e].pc = "error"]
    /\ UNCHANGED <<bookingVars, sessionVars, timeVars, viewVars, delivered, userVars, ret, routeVars, scanMode, video, effect, srcObject,
                   live>>

\* The pending frame fires: tick runs and requests the next frame.
TickFrame(e) ==
    /\ fx[e].frame = "first"
    /\ fx' = [fx EXCEPT ![e].frame = "tracked"]
    /\ UNCHANGED <<bookingVars, sessionVars, timeVars, viewVars, delivered, userVars, ret, routeVars, scanMode, video, effect, srcObject,
                   live>>

(***************************************************************************)
(* DriverDashboard: the scans of a mounted QRScanner over time.            *)
(* AdminDashboard.handleScan starts with the same three statements.        *)
(***************************************************************************)
\* A frame of the current effect run fires: tick decodes a QR code and calls
\* onScan(code.data), i.e. handleScan(data); the next frame is requested.
\* A reset timer due after MaxClock is not kept: it cannot fire before then.
ScannerDelivers(data, okU, okL) ==
    /\ scanMode
    /\ selectedRouteId # None
    /\ fx[effect].frame # None
    /\ fx' = [fx EXCEPT ![effect].frame = "tracked"]
    /\ delivered' = delivered \cup {data}
    /\ IF data = dLastScanned
       THEN UNCHANGED <<bookingVars, timeVars>>
       ELSE /\ DriverScanProcess(data, okU, okL)
            /\ timers' = timers \cup ({clock + Debounce} \cap (0 .. MaxClock))
            /\ processedAt' = [processedAt EXCEPT ![data] = {clock}]
            /\ UNCHANGED clock
    /\ UNCHANGED <<sessionVars, userVars, ret, routeVars, scanMode, video, effect, srcObject,
                   live, viewVars>>

\* A reset timer that is due fires: setLastScanned(null).
ScanTimerFires(d) ==
    /\ d \in timers
    /\ d <= clock
    /\ timers' = timers \ {d}
    /\ dLastScanned' = NoId
    /\ UNCHANGED <<store, now, riderVars, flowVars, callVars, dBookings, selectedRouteId,
                   dSwal, adminVars, sessionVars, userVars, ret, routeVars, scanVars,
                   clock, processedAt, delivered, viewVars>>

\* A second passes; the timers that are due have fired.
ClockTick ==
    /\ clock < MaxClock
    /\ \A d \in timers : d > clock
    /\ clock' = clock + 1
    /\ UNCHANGED <<bookingVars, sessionVars, userVars, ret, routeVars, scanVars, timers,
                   processedAt, delivered, viewVars>>

(***************************************************************************)
(* AdminDashboard: Manage Vehicles                                         *)
(***************************************************************************)
\* useEffect(() => { if (!isManageVehicles) loadRoutes() }, [isManageVehicles])
LoadRoutes ==
    /\ ~isManageVehicles
    /\ routes' = GetRoutes(details)
    /\ UNCHANGED <<bookingVars, sessionVars, timeVars, viewVars, delivered, userVars, ret, scanVars, details, isManageVehicles>>

\* The Manage Vehicles button: setIsManageVehicles(true)
OpenManageVehicles ==
    /\ ~isManageVehicles
    /\ isManageVehicles' = TRUE
    /\ UNCHANGED <<bookingVars, sessionVars, timeVars, viewVars, delivered, userVars, ret, scanVars, details, routes>>

\* The back arrow of the panel: setIsManageVehicles(false)
CloseManageVehicles ==
    /\ isManageVehicles
    /\ isManageVehicles' = FALSE
    /\ UNCHANGED <<bookingVars, sessionVars, timeVars, viewVars, delivered, userVars, ret, scanVars, details, routes>>

\* handleRouteUpdate(id, field, value): an input of the panel changes.
HandleRouteUpdate(id, field, value) ==
    /\ isManageVehicles
    /\ routes' = [routes EXCEPT ![id][field] = value]
    /\ UNCHANGED <<bookingVars, sessionVars, timeVars, viewVars, delivered, userVars, ret, scanVars, details, isManageVehicles>>

\* handleSaveRoutes: await saveRoutes(routes); setIsManageVehicles(false)
HandleSaveRoutes ==
    /\ isManageVehicles
    /\ details' = SaveRoutes(details, routes)
    /\ isManageVehicles' = FALSE
    /\ UNCHANGED <<bookingVars, sessionVars, timeVars, viewVars, delivered, userVars, ret, scanVars, routes>>

(***************************************************************************)
(* BookingFlow: the route tabs.  A route id is a text, a sequence of       *)
(* characters.                                                             *)
(***************************************************************************)
MaxDigits == 2     \* the longest run of digits in a route id
MaxRoutes == 2     \* the most routes getRoutes returns

\* \d
DigitChars == {"0", "1", "2", "3", "4", "5", "6", "7", "8", "9"}

\* The digits the configured ids are written with.
IdDigits == {"1", "2"}

\* The shapes of the configured route ids: inbound-morning, outbound-evening
\* and overtime, inbound-night, outbound-night and overtime.
IdShapes == {<<"m">>, <<"m", "n">>, <<"m", "o">>, <<"n">>, <<"n", "n">>, <<"n", "o">>}

\* The ids of the configured route set (ROUTES_DATA, or the routes table).
RouteIds ==
    {shape \o digits : shape \in IdShapes,
                       digits \in UNION {[1 .. n -> IdDigits] : n \in 1 .. MaxDigits}}

\* What getRoutes may return: a list of routes of the configured set.
RouteLists == UNION {[1 .. n -> RouteIds] : n \in 1 .. MaxRoutes}

\* id.match(/^<prefix>/): the id starts with the prefix, whatever follows.
MatchPrefixOnly(prefix, id) ==
    /\ Len(id) >= Len(prefix)
    /\ SubSeq(id, 1, Len(prefix)) = prefix

\* id.match(/^<prefix>\d+$/): the prefix, then one or more digits, then the end.
Match(prefix, id) ==
    /\ Len(id) > Len(prefix)
    /\ SubSeq(id, 1, Len(prefix)) = prefix
    /\ \A i \in (Len(prefix) + 1) .. Len(id) : id[i] \in DigitChars

morningIn == {r \in flowRoutes : Match(<<"m">>, r)}
eveningOut == {r \in flowRoutes : Match(<<"m", "n">>, r) \/ Match(<<"m", "o">>, r)}
nightIn == {r \in flowRoutes : Match(<<"n">>, r)}
nightOut == {r \in flowRoutes : Match(<<"n", "n">>, r) \/ Match(<<"n", "o">>, r)}

\* BookingFlow.loadData, run once when the flow mounts: setRoutes(await getRoutes()).
SetFlowRoutes(rs) ==
    /\ flowRoutes = {}
    /\ flowRoutes' = {rs[i] : i \in DOMAIN rs}
    /\ UNCHANGED <<bookingVars, userVars, ret, routeVars, scanVars, sessionVars, timeVars,
                   delivered, currentDate, searchTerm>>

(***************************************************************************)
(* AdminDashboard: the report of a day.  Names, ids and the search term    *)
(* are texts, sequences of characters.                                     *)
(***************************************************************************)
\* booking.userName as a text
NameText(name) == IF name = "Ann" THEN <<"A", "n", "n">> ELSE <<"B", "o", "b">>

\* booking.id as a text
IdText(id) == <<(<<"1", "2", "3", "4", "5", "6", "7", "8", "9">>)[id]>>

\* What an admin may type into the search box.
SearchTerms == {<<>>, <<"A", "N">>, <<"1">>, <<"z">>}

\* String.prototype.toLowerCase, of a text
TextToLowerCase(text) ==
    [i \in DOMAIN text |->
        IF text[i] = "A" THEN "a"
        ELSE IF text[i] = "B" THEN "b"
        ELSE IF text[i] = "N" THEN "n"
        ELSE text[i]]

\* String.prototype.includes
Includes(text, part) ==
    \E i \in 0 .. (Len(text) - Len(part)) : SubSeq(text, i + 1, i + Len(part)) = part

\* RouteOption.type of the routes
RouteType(r) == IF r = "m1" THEN "morning" ELSE "night"

Periods == {"morning", "evening", "night"}

\* navigateDate(days): the arrows beside the date.
NavigateDate(days) ==
    /\ currentDate + days \in 0 .. MaxDay
    /\ currentDate' = currentDate + days
    /\ UNCHANGED <<bookingVars, userVars, ret, routeVars, scanVars, sessionVars, timeVars,
                   delivered, flowRoutes, searchTerm>>

\* onChange of the search box: setSearchTerm(e.target.value)
SetSearchTerm(term) ==
    /\ term # searchTerm
    /\ searchTerm' = term
    /\ UNCHANGED <<bookingVars, userVars, ret, routeVars, scanVars, sessionVars, timeVars,
                   delivered, flowRoutes, currentDate>>

\* bDate has the date, month and year of currentDate.
dateFilteredBookings == {b \in aBookings : b.timestamp \div MsPerDay = currentDate}

filteredBookings ==
    {b \in dateFilteredBookings :
        \/ Includes(TextToLowerCase(NameText(b.userName)), TextToLowerCase(searchTerm))
        \/ Includes(IdText(b.id), searchTerm)}

\* Faulty variant: the branch of the night routes is missing.
PeriodOfDayRoutes(b) ==
    IF b.routeId \notin DOMAIN routes THEN None
    ELSE IF RouteType(b.routeId) = "morning" THEN "morning"
    ELSE IF RouteType(b.routeId) = "evening" THEN "evening"
    ELSE None

\* The group the forEach of groupedByPeriod pushes a booking to, if any.
PeriodOf(b) ==
    IF b.routeId \notin DOMAIN routes THEN None
    ELSE IF RouteType(b.routeId) = "morning" THEN "morning"
    ELSE IF RouteType(b.routeId) = "evening" THEN "evening"
    ELSE IF RouteType(b.routeId) = "night" THEN "night"
    ELSE None

groupedByPeriod == [p \in Periods |-> {b \in filteredBookings : PeriodOf(b) = p}]

(***************************************************************************)
(* The system.                                                             *)
(***************************************************************************)
RiderNext ==
    \/ \E ok \in BOOLEAN : OpenHome(ok)
    \/ \E ok \in BOOLEAN : OpenHistory(ok)
    \/ \E id \in Ids(store) : SetBookingToCancel(id)
    \/ CloseCancelModal
    \/ \E okU \in BOOLEAN, okL \in BOOLEAN : OnConfirmCancel(okU, okL)

StaffNext ==
    \/ \E ok \in BOOLEAN : DriverMount(ok)
    \/ \E r \in Routes \cup {None} : SetSelectedRouteId(r)
    \/ \E id \in Ids(store), status \in {NOSHOW, COMPLETED}, okU \in BOOLEAN, okL \in BOOLEAN :
          RosterButton(id, status, okU, okL)
    \/ \E data \in Codes, okU \in BOOLEAN, okL \in BOOLEAN : DriverHandleScan(data, okU, okL)
    \/ DriverScanTimeout
    \/ \E ok \in BOOLEAN : AdminMount(ok)
    \/ \E data \in Codes, okU \in BOOLEAN, okL \in BOOLEAN : AdminHandleScan(data, okU, okL)
    \/ AdminScanTimeout

FlowNext ==
    \/ \E okRoutes \in SUBSET Routes : OpenBookingFlow(okRoutes)
    \/ \E r \in Routes : HandleRouteSelect(r)
    \/ \E st \in Stations : HandleStationSelect(st)
    \/ \E d \in Days : ToggleDate(d)
    \/ \E c \in Calls, ok \in BOOLEAN : ConfirmBooking(c, ok)
    \/ \E c \in Calls, ok \in BOOLEAN : ConfirmDate(c, ok)
    \/ \E c \in Calls : ConfirmReport(c)
    \/ \E c \in Calls, ok \in BOOLEAN : ReportClosed(c, ok)

Next == RiderNext \/ StaffNext \/ FlowNext

Spec == Init /\ [][Next]_vars

\* Check-in: the rider's cancellations and the two dashboards.
NextCheckIn == RiderNext \/ StaffNext

SpecCheckIn == Init /\ [][NextCheckIn]_vars

\* Booking: the rider books and cancels.
NextBooking == RiderNext \/ FlowNext

SpecBooking == Init /\ [][NextBooking]_vars

\* Users: registrations and logins on a users table stored earlier.
InitUsers ==
    /\ store = <<>>
    /\ Mounted
    /\ users \in UserSeeds
    /\ reg = [k \in RegCalls |-> [pc |-> "idle", user |-> NoUser]]
    /\ ret = NoRet
    /\ RoutesIdle
    /\ ScannerClosed
    /\ SessionIdle
    /\ TimeIdle

NextUsers ==
    \/ \E k \in RegCalls, u \in NewUsers : RegisterUser(k, u)
    \/ \E k \in RegCalls, o \in Outcomes : RegSelect(k, o)
    \/ \E k \in RegCalls, o \in Outcomes : RegInsert(k, o)
    \/ \E empId \in EmpCodes, o \in Outcomes : LoginAuth(empId, o)

SpecUsers == InitUsers /\ [][NextUsers]_vars

\* Registration with every request succeeding.
NextRegistration ==
    \/ \E k \in RegCalls, u \in NewUsers : RegisterUser(k, u)
    \/ \E k \in RegCalls : RegSelect(k, "ok")
    \/ \E k \in RegCalls : RegInsert(k, "ok")
    \/ \E empId \in EmpCodes : LoginAuth(empId, "ok")

SpecRegistration == InitUsers /\ [][NextRegistration]_vars

\* The remote store is unreachable: every request fails.
InitUnreachable ==
    /\ store \in SeedStores
    /\ Mounted
    /\ users \in UserSeeds
    /\ reg = [k \in RegCalls |-> [pc |-> "idle", user |-> NoUser]]
    /\ ret = NoRet
    /\ RoutesIdle
    /\ ScannerClosed
    /\ SessionIdle
    /\ TimeIdle

NextUnreachable ==
    \/ CallGetBookings(FALSE)
    \/ \E u \in Users : CallGetUserBookings(u, FALSE)
    \/ \E b \in BookingArgs : CallSaveBooking(b, FALSE)
    \/ \E id \in Codes, status \in BookingStatus : CallUpdateBookingStatus(id, status, FALSE)
    \/ \E u \in NewUsers : RegisterUser("r1", u)
    \/ \E o \in {"error", "throw"} : RegSelect("r1", o)
    \/ \E o \in {"error", "throw"} : RegInsert("r1", o)

SpecUnreachable == InitUnreachable /\ [][NextUnreachable]_vars

\* The scanner: opened, rendered again and closed while the camera starts.
InitScanner ==
    /\ store = <<>>
    /\ Mounted
    /\ ServicesIdle

NextScanner ==
    \/ \E e \in Effects, v \in Videos : OpenScanner(e, v)
    \/ \E e \in Effects : Rerender(e)
    \/ CloseScanner
    \/ \E e \in Effects : GumResolve(e)
    \/ \E e \in Effects : GumReject(e)
    \/ \E e \in Effects : PlayResolve(e)
    \/ \E e \in Effects : PlayReject(e)
    \/ \E e \in Effects : TickFrame(e)

SpecScanner == InitScanner /\ [][NextScanner]_vars

\* Vehicle details: an admin edits and saves them, and they are loaded again.
InitRoutes ==
    /\ store = <<>>
    /\ Mounted
    /\ ServicesIdle

NextRoutes ==
    \/ LoadRoutes
    \/ OpenManageVehicles
    \/ CloseManageVehicles
    \/ \E id \in Routes, field \in Fields :
           \E value \in FieldValues(field) \cup {""} : HandleRouteUpdate(id, field, value)
    \/ HandleSaveRoutes

SpecRoutes == InitRoutes /\ [][NextRoutes]_vars

\* The session: logging in, registering, moving about and editing the profile.
InitSession ==
    /\ store = <<>>
    /\ Mounted
    /\ users \in UserSeeds
    /\ reg = [k \in RegCalls |-> [pc |-> "idle", user |-> NoUser]]
    /\ ret = NoRet
    /\ RoutesIdle
    /\ ScannerClosed
    /\ SessionIdle
    /\ TimeIdle

NextSession ==
    \/ \E f \in Forms : HandleSubmit(f)
    \/ \E o \in Outcomes : RegSelect("r1", o)
    \/ \E o \in Outcomes : RegInsert("r1", o)
    \/ SubmitRegistered
    \/ \E o \in Outcomes : SubmitLogin(o)
    \/ \E p \in Paths : GoTo(p)
    \/ \E b \in BOOLEAN : SetIsEditing(b)
    \/ \E field \in ProfileFields : \E value \in ProfileValues(field) \cup {""} :
           SetFormData(field, value)
    \/ HandleSave
    \/ Logout

SpecSession == InitSession /\ [][NextSession]_vars

\* Scanning: the driver opens and closes the scanner, codes are decoded and
\* the reset timers run.
NextDebounce ==
    \/ \E r \in Routes : SetSelectedRouteId(r)
    \/ \E e \in Effects, v \in Videos : OpenScanner(e, v)
    \/ CloseScanner
    \/ \E e \in Effects : GumResolve(e)
    \/ \E e \in Effects : PlayResolve(e)
    \/ \E e \in Effects : TickFrame(e)
    \/ \E data \in Codes, okU \in BOOLEAN, okL \in BOOLEAN : ScannerDelivers(data, okU, okL)
    \/ \E d \in timers : ScanTimerFires(d)
    \/ ClockTick

\* The driver dashboard has loaded a table that holds a booking of route m1
\* for today that waits to be scanned.
InitDebounce ==
    /\ Init
    /\ Len(store) = MaxSeed
    /\ store[1].status = WAITING
    /\ store[1].userId = "u1" /\ store[1].routeId = "m1"

SpecDebounce == InitDebounce /\ [][NextDebounce]_vars

\* Booking again: the rider books and cancels on a table that holds one
\* booking of any status.
InitRebook ==
    /\ InitAnyStore
    /\ Len(store) = 1

SpecRebook == InitRebook /\ [][NextBooking]_vars

\* The route tabs: BookingFlow loads the routes and groups them.
InitGrouping ==
    /\ store = <<>>
    /\ Mounted
    /\ ServicesIdle

NextGrouping == \E rs \in RouteLists : SetFlowRoutes(rs)

SpecGrouping == InitGrouping /\ [][NextGrouping]_vars

\* The report: the admin dashboard loads the bookings, checks riders in,
\* moves between days and searches.
NextReport ==
    \/ \E ok \in BOOLEAN : AdminMount(ok)
    \/ \E data \in Codes, okU \in BOOLEAN, okL \in BOOLEAN : AdminHandleScan(data, okU, okL)
    \/ AdminScanTimeout
    \/ \E days \in {-1, 1} : NavigateDate(days)
    \/ \E term \in SearchTerms : SetSearchTerm(term)

SpecReport == InitAnyStore /\ [][NextReport]_vars

\* Seats: the rider books and cancels while the driver marks the roster.
NextSeats ==
    \/ \E ok \in BOOLEAN : OpenHome(ok)
    \/ \E id \in Ids(store) : SetBookingToCancel(id)
    \/ \E okU \in BOOLEAN, okL \in BOOLEAN : OnConfirmCancel(okU, okL)
    \/ \E okRoutes \in SUBSET Routes : OpenBookingFlow(okRoutes)
    \/ \E r \in Routes : HandleRouteSelect(r)
    \/ \E st \in Stations : HandleStationSelect(st)
    \/ \E d \in Days : ToggleDate(d)
    \/ \E ok \in BOOLEAN : ConfirmBooking("c1", ok)
    \/ \E ok \in BOOLEAN : ConfirmDate("c1", ok)
    \/ ConfirmReport("c1")
    \/ \E ok \in BOOLEAN : ReportClosed("c1", ok)
    \/ \E ok \in BOOLEAN : DriverMount(ok)
    \/ \E r \in Routes : SetSelectedRouteId(r)
    \/ \E id \in Ids(store), status \in {NOSHOW, COMPLETED}, okU \in BOOLEAN, okL \in BOOLEAN :
          RosterButton(id, status, okU, okL)

InitSeats ==
    /\ store = <<>>
    /\ Mounted
    /\ ServicesIdle

SpecSeats == InitSeats /\ [][NextSeats]_vars

\* Seat counts: the booking flow loads them from a table of any content.
NextSeatCount ==
    \/ \E ok \in BOOLEAN : OpenHome(ok)
    \/ \E okRoutes \in SUBSET Routes : OpenBookingFlow(okRoutes)

SpecSeatCount == InitAnyStore /\ [][NextSeatCount]_vars

(***************************************************************************)
(* Properties.                                                             *)
(***************************************************************************)
Terminal == {COMPLETED, CANCELLED, NOSHOW}

\* C1: a booking whose stored status is COMPLETED, CANCELLED or NOSHOW never
\* changes status again, whatever the rider and the dashboards do.
C1_TerminalIsFinal ==
    [][\A i \in Ids(store) :
          store[i].status \in Terminal => store'[i].status = store[i].status]_vars

\* C3: once a booking is COMPLETED, a further COMPLETED transition leaves its
\* checkInTime as the first one stamped it.
C3_CheckInStampedOnce ==
    [][\A i \in Ids(store) :
          store[i].status = COMPLETED /\ store'[i].status = COMPLETED
            => store'[i].checkInTime = store[i].checkInTime]_vars

\* The scan handlers with the store reachable found `data` in their lookup set.
DriverFinds(data) == \E b \in CurrentBookings : b.id = data
AdminFinds(data) == \E b \in aBookings : b.id = data

\* C5: in the driver view and in the admin view, a scan (store reachable) of
\* an id whose booking is WAITING or BOOKED in the view's lookup set makes the
\* stored booking COMPLETED and stamps checkInTime with the time of the scan.
C5_ScanChecksIn ==
    [][\A data \in Codes :
          \/ /\ DriverHandleScan(data, TRUE, TRUE)
             /\ \E b \in CurrentBookings : b.id = data /\ b.status \in {WAITING, BOOKED}
          \/ /\ AdminHandleScan(data, TRUE, TRUE)
             /\ \E b \in aBookings : b.id = data /\ b.status \in {WAITING, BOOKED}
          => /\ store'[data].status = COMPLETED
             /\ store'[data].checkInTime = now']_vars

\* C6: a scan of the id of a booking whose stored status is terminal writes
\* nothing to the store.
C6_ScanOfTerminalWritesNothing ==
    [][\A data \in Ids(store), okU \in BOOLEAN, okL \in BOOLEAN :
          /\ DriverHandleScan(data, okU, okL) \/ AdminHandleScan(data, okU, okL)
          /\ store[data].status \in Terminal
          => store' = store]_vars

\* C7: a driver scan of an id that matches no non-cancelled booking of the
\* selected route for today raises the not-found Swal and changes no booking
\* in the store; an admin scan of an id that matches no loaded booking changes
\* no booking either. Neither reloads its list.
C7_UnknownScanChangesNothing ==
    [][\A data \in Codes, okU \in BOOLEAN, okL \in BOOLEAN :
          /\ DriverHandleScan(data, okU, okL) /\ ~DriverFinds(data)
               => store' = store /\ dBookings' = dBookings /\ dSwal' = "error"
          /\ AdminHandleScan(data, okU, okL) /\ ~AdminFinds(data)
               => store' = store /\ aBookings' = aBookings]_vars

\* C7 witness: the driver has just scanned the id of a stored booking that is
\* still WAITING, is loaded, but rides another route than the selected one;
\* and the admin a payload that is no booking's id.
C7_Witness ==
    /\ selectedRouteId # None
    /\ dLastScanned \in Ids(store)
    /\ store[dLastScanned].status = WAITING
    /\ store[dLastScanned].routeId # selectedRouteId
    /\ \E b \in dBookings : b.id = dLastScanned /\ b.status = WAITING
    /\ dSwal = "error"
    /\ aLastScanned = UnknownCode

\* C8: when the rider cancels a booking that is WAITING (the update reaching
\* the store), it becomes CANCELLED, its route's seat count drops by one, and
\* getUserBookings still returns it.
C8_CancelWaiting ==
    [][\A okL \in BOOLEAN :
          /\ OnConfirmCancel(TRUE, okL)
          /\ bookingToCancel \in Ids(store)
          /\ store[bookingToCancel].status = WAITING
          => LET id == bookingToCancel
                 r == store[id].routeId
             IN /\ store'[id].status = CANCELLED
                /\ GetRouteSeatCount(store', r, TRUE) = GetRouteSeatCount(store, r, TRUE) - 1
                /\ \E b \in GetUserBookings(store', user, TRUE) :
                      b.id = id /\ b.status = CANCELLED]_vars

\* C8 witness: a booking of the rider that both dashboards loaded as WAITING,
\* that was never checked in, is CANCELLED in the store.
C8_Witness ==
    \E i \in Ids(store) :
        /\ store[i].userId = user
        /\ store[i].status = CANCELLED
        /\ store[i].checkInTime = NoCheckIn
        /\ \E b \in dBookings : b.id = i /\ b.status = WAITING
        /\ \E b \in aBookings : b.id = i /\ b.status = WAITING

\* No two bookings of one user, neither CANCELLED, lie less than 60000 ms apart.
NoDuplicates(st) ==
    \A i, j \in Ids(st) :
        /\ i # j
        /\ st[i].userId = st[j].userId
        /\ st[i].status # CANCELLED
        /\ st[j].status # CANCELLED
        => Abs(st[i].timestamp - st[j].timestamp) >= 60000

NextTravel(c) == TravelTimestamp(Head(pending[c]), closure[c].route)

\* The stored bookings of the user within 60000 ms of `travel` are exactly as
\* invocation c read them with getUserBookings.
ReadStillCurrent(c, travel) ==
    \A i \in Ids(store) :
        store[i].userId = user /\ Abs(store[i].timestamp - travel) < 60000
            => RowToBooking(store, i) \in allUserBookings[c]

OnlyThisBatchBooked(c) ==
    /\ page = "flow"
    /\ selectedRoute = closure[c].route
    /\ GetRouteSeatCount(store, closure[c].route, TRUE)
         = seatCounts[closure[c].route] + createdCount[c]

\* C4: whenever confirmBooking persists a booking, the seat count of its route,
\* the new booking included, does not exceed the route's maxSeats; stated for
\* the case the claim names, one rider's batch on a route whose seat count is
\* as the flow loaded it.
C4_AcceptWithinCapacity ==
    [][\A c \in Calls :
          /\ ConfirmDate(c, TRUE)
          /\ Len(store') = Len(store) + 1
          /\ OnlyThisBatchBooked(c)
          => GetRouteSeatCount(store', closure[c].route, TRUE) <= MaxSeats]_vars

\* C9: in every batch each date is counted once, as created or as skipped;
\* a date is skipped exactly when the fetched bookings hold a non-cancelled
\* booking within 60000 ms of its travel timestamp; a skipped date stores
\* nothing.
C9_BatchCounts ==
    [][\A c \in Calls :
          /\ pc'[c] \in {"loop", "report"}
               => createdCount'[c] + failCount'[c] + Len(pending'[c]) = Len(closure'[c].dates)
          /\ \A ok \in BOOLEAN :
               ConfirmDate(c, ok) =>
                 LET travel == NextTravel(c)
                     near == \E b \in allUserBookings[c] :
                                /\ b.status \in {WAITING, BOOKED, COMPLETED, NOSHOW}
                                /\ b.timestamp - travel < 60000
                                /\ travel - b.timestamp < 60000
                 IN /\ near => failCount'[c] = failCount[c] + 1
                               /\ createdCount'[c] = createdCount[c] /\ store' = store
                    /\ ~near => createdCount'[c] = createdCount[c] + 1
                                /\ failCount'[c] = failCount[c]]_vars

\* C9 witness (scenario B): the rider holds a WAITING booking at T and the
\* batch for the same route and date reports 0 created, 1 skipped.
C9_Witness ==
    \E c \in Calls :
        /\ pc[c] = "report"
        /\ closure[c].dates = <<0>>
        /\ createdCount[c] = 0
        /\ failCount[c] = 1
        /\ \E b \in allUserBookings[c] :
              /\ b.status = WAITING
              /\ b.routeId = closure[c].route
              /\ b.timestamp = TravelTimestamp(0, closure[c].route)

\* C10: a date is counted as created only if its booking was persisted.
C10_CreatedMeansPersisted ==
    [][\A c \in Calls :
          createdCount'[c] = createdCount[c] + 1 => Len(store') = Len(store) + 1]_vars

\* RouteSection: {route.maxSeats - seatsTaken} "seats left", shown unless isFull.
SeatsLeft(r) == MaxSeats - seatCounts[r]

\* C11: on the route list of the booking flow a route can be selected iff its
\* loaded seat count is below maxSeats, and then maxSeats minus that count
\* (at least 1) is shown as seats left; a flow that loads while the route holds
\* maxSeats active bookings marks it full with 0 seats left.
C11_SelectableIffSeatsLeft ==
    [][\A r \in Routes :
          /\ page = "flow" /\ Idle /\ selectedRoute = None
               => /\ (ENABLED HandleRouteSelect(r)) <=> seatCounts[r] < MaxSeats
                  /\ IsFull(r) <=> SeatsLeft(r) <= 0
          /\ HandleRouteSelect(r) => SeatsLeft(r) >= 1
          /\ OpenBookingFlow(Routes) /\ GetRouteSeatCount(store, r, TRUE) = MaxSeats
               => seatCounts'[r] = MaxSeats /\ MaxSeats - seatCounts'[r] = 0]_vars

\* C11 witness (scenario A): the booking flow stored a booking that took the
\* last seat of a route, and the flow, loaded again, shows the route full; the
\* other route is still open.
C11_Witness ==
    /\ page = "flow" /\ Idle /\ selectedRoute = None
    /\ Len(store) > MaxSeed
    /\ \E r \in Routes :
          /\ store[Len(store)].routeId = r
          /\ store[Len(store)].status = WAITING
          /\ GetRouteSeatCount(store, r, TRUE) = MaxSeats
          /\ seatCounts[r] = MaxSeats
          /\ ~ENABLED HandleRouteSelect(r)
          /\ \E q \in Routes : ENABLED HandleRouteSelect(q)

\* The stored bookings of route r that travel on day d and are still active.
ActiveOnDay(st, r, d) ==
    {i \in Ids(st) : /\ st[i].routeId = r
                     /\ st[i].timestamp \div MsPerDay = d
                     /\ st[i].status \notin {COMPLETED, CANCELLED, NOSHOW}}

RECURSIVE SumActive(_, _, _)
SumActive(st, r, days) ==
    IF days = {} THEN 0
    ELSE LET d == CHOOSE x \in days : TRUE
         IN Cardinality(ActiveOnDay(st, r, d)) + SumActive(st, r, days \ {d})

\* C12: the seat count the flow loads for a route (the query succeeding) is
\* the number of stored bookings of the route that are neither COMPLETED,
\* CANCELLED nor NOSHOW, summed over all travel dates.
C12_SeatCountIsRouteWide ==
    [][\A okRoutes \in SUBSET Routes : \A r \in okRoutes :
          OpenBookingFlow(okRoutes) => seatCounts'[r] = SumActive(store, r, Days)]_vars

\* C12 witness: the flow loaded seat count 2 for a route that has one active
\* booking today and one on another day, next to bookings that do not count.
C12_Witness ==
    /\ page = "flow"
    /\ \E r \in Routes :
          /\ seatCounts[r] = 2
          /\ Cardinality(ActiveOnDay(store, r, 0)) = 1
          /\ Cardinality(ActiveOnDay(store, r, 1)) = 1

\* C15: a booking whose stored status is no longer WAITING or BOOKED is never
\* set back to WAITING or BOOKED, and every change of a stored status is to
\* COMPLETED, NOSHOW or CANCELLED.
C15_StatusNeverReopens ==
    [][\A i \in Ids(store) :
          /\ store[i].status \notin {WAITING, BOOKED}
               => store'[i].status \notin {WAITING, BOOKED}
          /\ store'[i].status # store[i].status
               => store'[i].status \in {COMPLETED, NOSHOW, CANCELLED}]_vars

\* C15 witness: a booking the rider cancelled (BookingHistory shows it as
\* CANCELLED) was then written by a dashboard, and is COMPLETED or NOSHOW.
C15_Witness ==
    /\ page = "history"
    /\ \E b \in userBookings :
          /\ b.status = CANCELLED
          /\ store[b.id].status \in {COMPLETED, NOSHOW}

\* C13: a booking confirmBooking passed to saveBooking (the save succeeding)
\* is found among the stored bookings under the id confirmBooking generated
\* for it, with the same user, route and station ids and names.
C13_SavedBookingFoundById ==
    [][\A c \in Calls, id \in ClientIds :
          LET b == NewBooking(c, NextTravel(c), id)
          IN /\ ConfirmDate(c, TRUE)
             /\ Len(store') = Len(store) + 1
             /\ store' = SaveBooking(store, b, TRUE)
             => \E g \in GetBookings(store', TRUE) :
                   /\ g.id = b.id
                   /\ g.userId = b.userId /\ g.userName = b.userName
                   /\ g.routeId = b.routeId /\ g.routeName = b.routeName
                   /\ g.stationId = b.stationId /\ g.stationName = b.stationName]_vars

\* C14: every booking confirmBooking persists is WAITING, has no checkInTime,
\* travels on the selected date at the route's departure time to the minute,
\* and carries the names of the user, the route and the station.
C14_PersistedBookingShape ==
    [][\A c \in Calls :
          ConfirmDate(c, TRUE) /\ Len(store') = Len(store) + 1
          => \E g \in GetBookings(store', TRUE) :
                /\ g.id = Len(store')
                /\ g.status = WAITING
                /\ g.checkInTime = NoCheckIn
                /\ g.timestamp \div MsPerDay = Head(pending[c])
                /\ g.timestamp % MsPerDay = RouteMinutes(closure[c].route) * 60 * 1000
                /\ g.userId = user /\ g.userName = UserName(user)
                /\ g.routeId = closure[c].route /\ g.routeName = RouteName(closure[c].route)
                /\ g.stationId = closure[c].station
                /\ g.stationName = StationName(closure[c].station)]_vars

\* C14 witness: a batch of two dates has stored its two bookings.
C14_Witness ==
    /\ Len(store) = 2
    /\ \E c \in Calls :
          /\ pc[c] = "report"
          /\ Len(closure[c].dates) = 2
          /\ createdCount[c] = 2
          /\ \A i \in Ids(store) :
                /\ store[i].routeId = closure[c].route
                /\ store[i].userName = UserName(user)
                /\ store[i].status = WAITING
          /\ store[1].timestamp # store[2].timestamp

\* C16: in every reachable state the users table holds at most one user per
\* employee code.
C16_OneUserPerCode ==
    \A i, j \in DOMAIN users : users[i].employeeId = users[j].employeeId => i = j

\* C17: loginAuth returns the fixed admin identity for 9999 and the fixed
\* driver identity for 8888 whatever the users table holds, and for any other
\* code either nothing or the stored user of that code (it does when the query
\* succeeds and the code has one row).
C17_LoginAuthReservedCodes ==
    [][\A empId \in EmpCodes, o \in Outcomes :
          LoginAuth(empId, o) =>
            /\ empId = "9999" => ret'.val = {AdminIdentity}
            /\ empId = "8888" => ret'.val = {DriverIdentity}
            /\ empId \notin {"9999", "8888"} =>
                 /\ \A u \in ret'.val :
                       \E i \in DOMAIN users :
                          /\ users[i].employeeId = empId
                          /\ u.employeeId = empId
                          /\ u.id = RowIds[i]
                          /\ u.name = users[i].name
                          /\ u.role \in {USER, ADMIN, DRIVER}
                 /\ Cardinality(ret'.val) <= 1
                 /\ o = "ok" /\ Cardinality(RowsOf(users, empId)) = 1 => ret'.val # {}]_vars

\* C17 witness: a user is registered under 9999 and under 1001; the last
\* login returned the admin identity.
C17_Witness ==
    /\ \E i \in DOMAIN users : users[i].employeeId = "9999"
    /\ \E i \in DOMAIN users : users[i].employeeId = "1001"
    /\ ret = [fn |-> "loginAuth", val |-> {AdminIdentity}]

\* C18: with the remote store unreachable every data-access function returns:
\* getBookings and getUserBookings an empty list, saveBooking and registerUser
\* false, updateBookingStatus nothing; no booking and no user changes.
C18_FailuresDegrade ==
    [][/\ CallGetBookings(FALSE) => ret'.val = {}
       /\ \A u \in Users : CallGetUserBookings(u, FALSE) => ret'.val = {}
       /\ \A b \in BookingArgs : CallSaveBooking(b, FALSE) => ret'.val = FALSE
       /\ \A id \in Codes, status \in BookingStatus :
             CallUpdateBookingStatus(id, status, FALSE) => ret'.val = Void
       /\ \A k \in RegCalls, o \in {"error", "throw"} :
             /\ RegInsert(k, o) => ret'.fn = "registerUser" /\ ret'.val = FALSE
             /\ RegSelect(k, o) /\ reg'[k].pc = "idle"
                  => ret'.fn = "registerUser" /\ ret'.val = FALSE
       /\ store' = store
       /\ users' = users]_vars

\* C18 witness: with a booking stored and no user registered, a registerUser
\* call has returned false.
C18_Witness ==
    /\ Len(store) = 1
    /\ users = <<>>
    /\ ret = [fn |-> "registerUser", val |-> FALSE]

\* startCamera of run e has not finished.
Starting(e) == fx[e].pc \in {"gum", "gumFallback", "play"}

\* C19: once the scanner is closed and no startCamera is still under way,
\* every stream that was acquired has its tracks stopped and no animation
\* frame of the capture loop is pending.
C19_CameraReleasedWhenClosed ==
    (~scanMode /\ \A e \in Effects : ~Starting(e))
        => live = {} /\ \A e \in Effects : fx[e].frame = None

\* The vehicle details of route r as saveRoutes was given them, absent and
\* empty values read as unset.
SavedDetail(r) ==
    [licensePlate |-> OrUndefined(routes[r].licensePlate),
     driverPhone |-> OrUndefined(routes[r].driverPhone)]

\* C20: after saveRoutes(routes) has succeeded, getRoutes returns for every
\* route the licensePlate and driverPhone that were saved, an absent or empty
\* value as unset.
C20_SavedRoutesReadBack ==
    [][HandleSaveRoutes => \A r \in Routes : GetRoutes(details')[r] = SavedDetail(r)]_vars

\* C21: a submit of the Login form with an empty employee ID, or of the
\* registration form with an empty name, department or phone, calls neither
\* registerUser nor loginAuth and leaves the session user and the users
\* table unchanged.
C21_InvalidSubmitChangesNothing ==
    [][\A f \in Forms :
           (/\ HandleSubmit(f)
            /\ f.empId = "" \/ (f.isRegister /\ (f.name = "" \/ f.dept = "" \/ f.phone = "")))
               => /\ login' = login /\ reg' = reg /\ ret' = ret
                  /\ sessionUser' = sessionUser /\ users' = users]_vars

\* A registration form with a field missing was submitted and reported.
C21_Witness ==
    /\ loginSwal = "warning"
    /\ login.pc = "idle"
    /\ sessionUser = {}

\* C22: a code that handleScan processes was not processed during the three
\* seconds before, whatever other codes were scanned and whatever reset
\* timers fired in between.
C22_ProcessedOncePerWindow ==
    [][\A data \in AllCodes :
           (dLastScanned # data /\ dLastScanned' = data)
               => \A t \in processedAt[data] : clock - t >= Debounce]_vars

\* C23: the first delivery of a code after the scanner was opened is
\* processed, also when the code was scanned less than three seconds earlier
\* while the scanner was open before.
C23_FirstScanOfSessionProcessed ==
    [][\A data \in AllCodes :
           (data \notin delivered /\ data \in delivered') => dLastScanned # data]_vars

\* C24: a booking that a rider page sets to CANCELLED is a booking of the
\* logged-in rider that the page's loaded list showed as WAITING or BOOKED;
\* no booking of another user becomes CANCELLED.
C24_RiderCancelsOwnBookingOnly ==
    [][\A i \in Ids(store) :
           (store[i].status # CANCELLED /\ store'[i].status = CANCELLED)
               => /\ store[i].userId = user
                  /\ \E b \in userBookings :
                        /\ b.id = i
                        /\ b.userId = user
                        /\ b.status \in {WAITING, BOOKED}]_vars

\* The rider has cancelled an own booking while the table holds a booking of
\* another user, which is not cancelled.
C24_Witness ==
    \E i, j \in Ids(store) :
        /\ store[i].userId = user /\ store[i].status = CANCELLED
        /\ store[j].userId # user /\ store[j].status # CANCELLED

\* The stored bookings of the user within 60000 ms of `travel`.
SlotRows(travel) ==
    {i \in Ids(store) : store[i].userId = user /\ Abs(store[i].timestamp - travel) < DupWindow}

\* What C25 says of one turn of the loop of invocation c.
RebookRule(c) ==
    LET travel == NextTravel(c)
    IN /\ (SlotRows(travel) # {} /\ \A i \in SlotRows(travel) : store[i].status = CANCELLED)
            => createdCount'[c] = createdCount[c] + 1 /\ failCount'[c] = failCount[c]
       /\ (\E i \in SlotRows(travel) : store[i].status \in {COMPLETED, NOSHOW})
            => failCount'[c] = failCount[c] + 1 /\ createdCount'[c] = createdCount[c]
               /\ store' = store

Partitions == <<morningIn, eveningOut, nightIn, nightOut>>

SeatCount(st, r) == GetRouteSeatCount(st, r, TRUE)

C28_SeatCountFollowsStatus ==
    [][/\ \A i \in Ids(store) :
             (/\ store[i].status \in {WAITING, BOOKED}
              /\ store'[i].status \in {COMPLETED, NOSHOW, CANCELLED})
                 => SeatCount(store', store[i].routeId) = SeatCount(store, store[i].routeId) - 1
       /\ \A r \in Routes :
             SeatCount(store', r) > SeatCount(store, r)
                 => /\ Len(store') = Len(store) + 1
                    /\ store'[Len(store')].routeId = r
                    /\ SubSeq(store', 1, Len(store)) = store]_vars

\* The rider made two bookings; the driver marked the first and the rider
\* cancelled the last: the counts rose with the saves and fell with the
\* status changes.
C28_Witness ==
    /\ Len(store) = MaxBookings
    /\ store[1].status \in {COMPLETED, NOSHOW}
    /\ store[MaxBookings].status = CANCELLED

\* C29: in every reachable state a COMPLETED booking has a checkInTime; a
\* status update to CANCELLED or NOSHOW changes only the status of the
\* booking it targets: its checkInTime and every other booking stay as they
\* were.
C29_CheckInTimeWithCompleted ==
    /\ [](\A i \in Ids(store) :
             store[i].status = COMPLETED => store[i].checkInTime # NoCheckIn)
    /\ [][\A i \in Ids(store) :
             (/\ store'[i].status \in {CANCELLED, NOSHOW}
              /\ store'[i].status # store[i].status)
                 => store' = [store EXCEPT ![i].status = store'[i].status]]_vars

\* The driver checked the first booking in and marked the other a no-show.
C29_Witness ==
    /\ Len(store) = MaxBookings
    /\ store[1].status = COMPLETED /\ store[1].checkInTime # NoCheckIn
    /\ store[MaxBookings].status = NOSHOW

\* C30: the admin dashboard is rendered only while the session user's role
\* is ADMIN and the driver dashboard only while it is DRIVER; a user created
\* through the registration form has the role USER; a profile save changes
\* neither the role, the id nor the employee code of the session user.
C30_RolesGuardTheDashboards ==
    /\ [](/\ Rendered = "AdminDashboard" => RoleOf(sessionUser) = ADMIN
          /\ Rendered = "DriverDashboard" => RoleOf(sessionUser) = DRIVER
          /\ login.pc = "register" => login.newUser.role = USER)
    /\ [][/\ (login.pc = "register" /\ sessionUser' # {})
                 => sessionUser' = {login.newUser} /\ RoleOf(sessionUser') = USER
          /\ (sessionUser # {} /\ sessionUser' # {})
                 => \A u \in sessionUser, v \in sessionUser' :
                        v.role = u.role /\ v.id = u.id /\ v.employeeId = u.employeeId]_vars

\* The admin saved a new name in the profile and is on the admin dashboard.
C30_Witness ==
    /\ Rendered = "AdminDashboard"
    /\ \E u \in sessionUser : u.name # AdminIdentity.name

====
